---- MODULE Spec2Model ----
(***************************************************************************)
(* A model of the C API of mxnet (src/src/c_api.cc): the thread-local      *)
(* return store, the API_BEGIN/API_END error protocol, the NArray list     *)
(* file format (MXNArrayListSave / MXNArrayListLoad), shape inference      *)
(* through MXSymbolInferShape, executor binding and execution, and the     *)
(* dependency engine the NArray functions schedule their work on.          *)
(*                                                                         *)
(* The classes c_api.cc only calls into (NArray, Symbol, Executor,         *)
(* DAGEngine) are modelled from the specification; the definitions that    *)
(* do so say it in their comments.                                         *)
(***************************************************************************)
EXTENDS Integers, Sequences, FiniteSets, TLC

VARIABLES
  file,     \* the one file of the file system: [exists, bytes]
  heap,     \* NArray objects allocated by the API with new: handle -> NArray
  tls,      \* thread -> MXAPIThreadLocalEntry
  out,      \* the most recent API call: its thread, what it was given, its
            \* return code and what it left in the caller's out-parameters
  hist,     \* history: what the file was saved from, and call counters
  execs,    \* Executor objects made by MXExecutorBind: handle -> Executor
  engine    \* the DAGEngine: the operations pushed and not yet run, and
            \* the threads blocked in a wait

vars == <<file, heap, tls, out, hist, execs, engine>>

(***************************************************************************)
(* Bounds of the model.                                                    *)
(***************************************************************************)
MaxList == 3        \* longest list of tensors handed to MXNArrayListSave
MaxByteEdits == 1   \* bytes of the file changed behind the API's back
MaxLoads == 1       \* calls of MXNArrayListLoad in one behaviour
MaxSaves == 1       \* calls of MXNArrayListSave in one behaviour
MaxKwargs == 2      \* most shapes handed to MXSymbolInferShape by keyword
MaxInfers == 2      \* calls of MXSymbolInferShape in one behaviour
Huge == 32768       \* every decoded integer >= Huge is read as Huge
MaxArrays == 2      \* NArrays made by MXNArrayCreate in one behaviour
MaxExecs == 1       \* executors bound in one behaviour
MaxPasses == 3      \* calls of MXExecutorForward / MXExecutorBackward
MaxOps == 3         \* operations pushed to the engine in one behaviour
MaxRawLoads == 1    \* calls of MXNArrayLoadFromRawBytes in one behaviour
MaxWaits == 1       \* calls of MXNArrayWaitToRead in one behaviour
MaxListings == 2    \* calls of MXSymbolListArguments / MXSymbolListReturns
MaxHeadCalls == 2   \* calls of MXExecutorHeads in one behaviour

Threads == {1, 2}

(***************************************************************************)
(* Values.                                                                 *)
(***************************************************************************)
cpu == [dev_mask |-> 1, dev_id |-> 0]
gpu1 == [dev_mask |-> 2, dev_id |-> 1]
NoCtx == [dev_mask |-> 0, dev_id |-> 0]

\* NArray(): the "none" array, no shape and no storage
NoneNArray == [shape |-> <<>>, ctx |-> NoCtx, data |-> <<>>]

\* the tensors a caller holds: three distinct shapes, two contexts, and none
TensorPool ==
  { [shape |-> <<1>>,    ctx |-> cpu,  data |-> <<7>>],
    [shape |-> <<2>>,    ctx |-> gpu1, data |-> <<1, 2>>],
    [shape |-> <<1, 2>>, ctx |-> cpu,  data |-> <<3, 0>>],
    NoneNArray }

\* names as character codes; <<>> is the empty name of an "unnamed" tensor
NamePool == { <<>>, <<97, 98>> }

SeqsUpTo(S, n) == UNION { [1..k -> S] : k \in 0..n }
SeqsOfLen(S, k) == [1..k -> S]

Injective(s) == \A i, j \in DOMAIN s : s[i] = s[j] => i = j

(***************************************************************************)
(* dmlc::Stream over a byte sequence.  A read of k bytes at offset pos     *)
(* succeeds iff k bytes remain.  Integers are little-endian.  A reader     *)
(* returns [ok, val, pos].                                                 *)
(***************************************************************************)
Fail == [ok |-> FALSE, val |-> 0, pos |-> 0]
Ok(v, p) == [ok |-> TRUE, val |-> v, pos |-> p]

EncU32(n) == << n % 256, (n \div 256) % 256, 0, 0 >>
EncU64(n) == EncU32(n) \o <<0, 0, 0, 0>>

Low16(bytes, pos) == bytes[pos + 1] + 256 * bytes[pos + 2]

ZeroFrom(bytes, pos, a, b) == \A i \in a..b : bytes[pos + i] = 0

\* Bind(v, K): K applied to the value v (v is evaluated once)
Bind(v, K(_)) == K(v)

ReadU32(bytes, pos) ==
  IF pos + 4 > Len(bytes) THEN Fail
  ELSE Ok(IF ZeroFrom(bytes, pos, 3, 4) /\ Low16(bytes, pos) < Huge
          THEN Low16(bytes, pos) ELSE Huge, pos + 4)

ReadU64(bytes, pos) ==
  IF pos + 8 > Len(bytes) THEN Fail
  ELSE Ok(IF ZeroFrom(bytes, pos, 3, 8) /\ Low16(bytes, pos) < Huge
          THEN Low16(bytes, pos) ELSE Huge, pos + 8)

\* a * b, saturating at Huge
CapMul(a, b) ==
  IF a = 0 \/ b = 0 THEN 0
  ELSE IF a >= Huge \/ b >= Huge THEN Huge
  ELSE IF a * b >= Huge THEN Huge ELSE a * b

\* TShape::Size(): the product of the dimensions
RECURSIVE ShapeSize(_)
ShapeSize(shape) ==
  IF shape = <<>> THEN 1 ELSE CapMul(Head(shape), ShapeSize(Tail(shape)))

\* n 4-byte values in a row: fails iff one of the n reads would
ReadU32s(bytes, pos, n) ==
  IF pos + 4 * n > Len(bytes) THEN Fail
  ELSE Ok([i \in 1..n |-> ReadU32(bytes, pos + 4 * (i - 1)).val], pos + 4 * n)

RECURSIVE EncU32s(_)
EncU32s(s) == IF s = <<>> THEN <<>> ELSE EncU32(Head(s)) \o EncU32s(Tail(s))

(***************************************************************************)
(* NArray::Save / NArray::Load (modelled from the specification's single   *)
(* tensor record): ndim and the dimensions as 4-byte values, the context   *)
(* as two 4-byte values, then the elements, 4 bytes each.  The none array  *)
(* is the record of ndim 0 alone.                                          *)
(***************************************************************************)
NArraySave(a) ==
  IF a.shape = <<>> THEN EncU32(0)
  ELSE EncU32(Len(a.shape)) \o EncU32s(a.shape)
       \o EncU32(a.ctx.dev_mask) \o EncU32(a.ctx.dev_id)
       \o EncU32s(a.data)

\* the context and the elements, once the shape dims has been read
NArrayLoadRest(bytes, dims) ==
  IF ~dims.ok THEN Fail
  ELSE Bind(ReadU32s(bytes, dims.pos, 2), LAMBDA ctx :
       IF ~ctx.ok THEN Fail
       ELSE Bind(ReadU32s(bytes, ctx.pos, ShapeSize(dims.val)), LAMBDA elems :
            IF ~elems.ok THEN Fail
            ELSE Ok([shape |-> dims.val,
                     ctx |-> [dev_mask |-> ctx.val[1], dev_id |-> ctx.val[2]],
                     data |-> elems.val], elems.pos)))

NArrayLoad(bytes, pos) ==
  Bind(ReadU32(bytes, pos), LAMBDA nd :
    IF ~nd.ok THEN Fail
    ELSE IF nd.val = 0 THEN Ok(NoneNArray, nd.pos)
    ELSE NArrayLoadRest(bytes, ReadU32s(bytes, nd.pos, nd.val)))

(***************************************************************************)
(* dmlc::Stream::Write / Read of std::vector<NArray>, std::string and      *)
(* std::vector<std::string>: an 8-byte count, then the elements.  A        *)
(* vector reader takes the elements read so far (acc); when a read fails   *)
(* it returns them in val, as the caller's vector keeps them.              *)
(***************************************************************************)
RECURSIVE WriteNArrays(_)
WriteNArrays(s) ==
  IF s = <<>> THEN <<>> ELSE NArraySave(Head(s)) \o WriteNArrays(Tail(s))

WriteNArrayVec(s) == EncU64(Len(s)) \o WriteNArrays(s)

WriteString(s) == EncU64(Len(s)) \o s

RECURSIVE WriteStrings(_)
WriteStrings(s) ==
  IF s = <<>> THEN <<>> ELSE WriteString(Head(s)) \o WriteStrings(Tail(s))

WriteStringVec(s) == EncU64(Len(s)) \o WriteStrings(s)

RECURSIVE ReadNArrays(_, _, _, _)
ReadNArrays(bytes, pos, n, acc) ==
  IF n = 0 THEN Ok(acc, pos)
  ELSE Bind(NArrayLoad(bytes, pos), LAMBDA r :
       IF ~r.ok THEN [ok |-> FALSE, val |-> acc, pos |-> 0]
       ELSE ReadNArrays(bytes, r.pos, n - 1, Append(acc, r.val)))

ReadNArrayVec(bytes, pos) ==
  Bind(ReadU64(bytes, pos), LAMBDA n :
    IF ~n.ok THEN [ok |-> FALSE, val |-> <<>>, pos |-> 0]
    ELSE ReadNArrays(bytes, n.pos, n.val, <<>>))

ReadString(bytes, pos) ==
  Bind(ReadU64(bytes, pos), LAMBDA n :
    IF ~n.ok THEN Fail
    ELSE IF n.pos + n.val > Len(bytes) THEN Fail
    ELSE Ok(SubSeq(bytes, n.pos + 1, n.pos + n.val), n.pos + n.val))

RECURSIVE ReadStrings(_, _, _, _)
ReadStrings(bytes, pos, n, acc) ==
  IF n = 0 THEN Ok(acc, pos)
  ELSE Bind(ReadString(bytes, pos), LAMBDA r :
       IF ~r.ok THEN [ok |-> FALSE, val |-> acc, pos |-> 0]
       ELSE ReadStrings(bytes, r.pos, n - 1, Append(acc, r.val)))

ReadStringVec(bytes, pos) ==
  Bind(ReadU64(bytes, pos), LAMBDA n :
    IF ~n.ok THEN [ok |-> FALSE, val |-> <<>>, pos |-> 0]
    ELSE ReadStrings(bytes, n.pos, n.val, <<>>))

(***************************************************************************)
(* MXAPIThreadLocalEntry, API_BEGIN / API_END and MXHandleException.       *)
(***************************************************************************)
EmptyEntry ==
  [ last_error |-> "",
    ret_vec_str |-> <<>>, ret_vec_charp |-> <<>>, ret_handles |-> <<>>,
    arg_shapes |-> <<>>, out_shapes |-> <<>>, aux_shapes |-> <<>>,
    arg_shape_ndim |-> <<>>, out_shape_ndim |-> <<>>, aux_shape_ndim |-> <<>>,
    arg_shape_data |-> <<>>, out_shape_data |-> <<>>, aux_shape_data |-> <<>> ]

\* an out-parameter of the caller: written by the call, or left as it was
Unwritten == [written |-> FALSE, val |-> 0]
W(v) == [written |-> TRUE, val |-> v]

\* pointers into a thread's entry; dmlc::BeginPtr of an empty vector is null
NullPtr == [thread |-> 0, buf |-> "null"]
BeginPtr(t, buf, vec) == IF vec = <<>> THEN NullPtr ELSE [thread |-> t, buf |-> buf]

\* names[i].c_str(): a pointer to the i-th string of t's ret_vec_str
CStr(t, i) == [thread |-> t, idx |-> i]

Throw(msg) == [throw |-> TRUE, msg |-> msg]

MXHandleException_KeepsFirst(entry, msg) ==
  IF entry.last_error = "" THEN [entry EXCEPT !.last_error = msg] ELSE entry

\* MXHandleException: the message goes to the calling thread's last_error
MXHandleException(entry, msg) == [entry EXCEPT !.last_error = msg]

FormatError == "Invalid NArray file format"
OpenError == "fail to open file"

kMXAPINArrayListMagic == 274   \* 0x112

(***************************************************************************)
(* MXNArrayListSave                                                        *)
(***************************************************************************)
\* a variant that writes the names before the tensors
ListSaveBytes_NamesFirst(args, keysNull, keys) ==
  LET names == IF keysNull THEN <<>> ELSE keys IN
  EncU64(kMXAPINArrayListMagic) \o EncU64(0)
    \o WriteStringVec(names) \o WriteNArrayVec(args)

ListSaveBytes(args, keysNull, keys) ==
  LET names == IF keysNull THEN <<>> ELSE keys IN
  EncU64(kMXAPINArrayListMagic) \o EncU64(0)
    \o WriteNArrayVec(args) \o WriteStringVec(names)

MXNArrayListSave(t, args, keysNull, keys) ==
  /\ hist.saves < MaxSaves
  /\ file' = [exists |-> TRUE, bytes |-> ListSaveBytes(args, keysNull, keys)]
  /\ out' = [fn |-> "MXNArrayListSave", rc |-> 0]
  /\ hist' = [hist EXCEPT !.saves = @ + 1, !.pristine = TRUE,
                          !.data = args,
                          !.names = IF keysNull THEN <<>> ELSE keys]
  /\ UNCHANGED <<heap, tls, execs, engine>>

(***************************************************************************)
(* MXNArrayListLoad.  ListLoadBody is the body between API_BEGIN and the   *)
(* first write to the thread's handle buffer: it throws, or yields the     *)
(* tensors and the names; names is what ret_vec_str holds either way.      *)
(***************************************************************************)
LoadThrow(msg, names) == [throw |-> TRUE, msg |-> msg, names |-> names]

\* a variant without the check of the number of names
ListLoadNames_NoCount(data, names) ==
  IF ~names.ok THEN LoadThrow(FormatError, names.val)
  ELSE [throw |-> FALSE, msg |-> "", names |-> names.val, data |-> data.val]

\* lines 313-316: the names, and the check of their number
ListLoadNames(data, names) ==
  IF ~names.ok THEN LoadThrow(FormatError, names.val)
  ELSE IF ~(Len(names.val) = 0 \/ Len(names.val) = Len(data.val))
       THEN LoadThrow(FormatError, names.val)
  ELSE [throw |-> FALSE, msg |-> "", names |-> names.val, data |-> data.val]

\* lines 311-312: the tensors
ListLoadData(bytes, data) ==
  IF ~data.ok THEN LoadThrow(FormatError, <<>>)
  ELSE ListLoadNames(data, ReadStringVec(bytes, data.pos))

\* a variant without the check of the magic
ListLoadHeader_NoMagic(bytes, header) ==
  IF ~header.ok THEN LoadThrow(FormatError, <<>>)
  ELSE Bind(ReadU64(bytes, header.pos), LAMBDA reserved :
       IF ~reserved.ok THEN LoadThrow(FormatError, <<>>)
       ELSE ListLoadData(bytes, ReadNArrayVec(bytes, reserved.pos)))

\* a variant that wants the reserved field to be zero
ListLoadHeader_ChecksReserved(bytes, header) ==
  IF ~header.ok THEN LoadThrow(FormatError, <<>>)
  ELSE Bind(ReadU64(bytes, header.pos), LAMBDA reserved :
       IF ~reserved.ok THEN LoadThrow(FormatError, <<>>)
       ELSE IF header.val # kMXAPINArrayListMagic \/ reserved.val # 0
            THEN LoadThrow(FormatError, <<>>)
       ELSE ListLoadData(bytes, ReadNArrayVec(bytes, reserved.pos)))

\* lines 305-310: the header, the reserved field, the magic
ListLoadHeader(bytes, header) ==
  IF ~header.ok THEN LoadThrow(FormatError, <<>>)
  ELSE Bind(ReadU64(bytes, header.pos), LAMBDA reserved :
       IF ~reserved.ok THEN LoadThrow(FormatError, <<>>)
       ELSE IF header.val # kMXAPINArrayListMagic THEN LoadThrow(FormatError, <<>>)
       ELSE ListLoadData(bytes, ReadNArrayVec(bytes, reserved.pos)))

ListLoadBody(f) ==
  IF ~f.exists THEN LoadThrow(OpenError, <<>>)
  ELSE ListLoadHeader(f.bytes, ReadU64(f.bytes, 0))

\* a variant in which a load that fails leaves ret_vec_str as it was
ListLoadReturn_KeepsOnFailure(t, r) ==
  LET call == [fn |-> "MXNArrayListLoad", thread |-> t,
               fname |-> file, pristine |-> hist.pristine,
               live |-> Len(heap), strs |-> tls[t].ret_vec_str]
      cleared == [tls[t] EXCEPT !.ret_vec_str = r.names] IN
  IF r.throw
  THEN /\ tls' = [tls EXCEPT ![t] = MXHandleException(@, r.msg)]
       /\ out' = call @@ [rc |-> -1, raised |-> r.msg,
                  out_size |-> Unwritten, out_arr |-> Unwritten,
                  out_name_size |-> Unwritten, out_names |-> Unwritten]
       /\ heap' = heap
  ELSE LET handles == [i \in 1..Len(r.data) |-> Len(heap) + i]
           charp == [i \in 1..Len(r.names) |-> CStr(t, i)]
       IN
       /\ heap' = heap \o r.data
       /\ tls' = [tls EXCEPT ![t] = [cleared EXCEPT !.ret_handles = handles,
                                                    !.ret_vec_charp = charp]]
       /\ out' = call @@ [rc |-> 0,
                  out_size |-> W(Len(r.data)),
                  out_arr |-> W(BeginPtr(t, "ret_handles", handles)),
                  out_name_size |-> W(Len(r.names)),
                  out_names |-> W(BeginPtr(t, "ret_vec_charp", charp))]

\* line 299 and lines 317-330: ret_vec_str is cleared before API_BEGIN and
\* the names are read into it; then the handles, the name pointers, the
\* out-parameters
ListLoadReturn(t, r) ==
  LET call == [fn |-> "MXNArrayListLoad", thread |-> t,
               fname |-> file, pristine |-> hist.pristine,
               live |-> Len(heap), strs |-> tls[t].ret_vec_str]
      cleared == [tls[t] EXCEPT !.ret_vec_str = r.names] IN
  IF r.throw
  THEN /\ tls' = [tls EXCEPT ![t] = MXHandleException(cleared, r.msg)]
       /\ out' = call @@ [rc |-> -1, raised |-> r.msg,
                  out_size |-> Unwritten, out_arr |-> Unwritten,
                  out_name_size |-> Unwritten, out_names |-> Unwritten]
       /\ heap' = heap
  ELSE LET handles == [i \in 1..Len(r.data) |-> Len(heap) + i]
           charp == [i \in 1..Len(r.names) |-> CStr(t, i)]
       IN
       /\ heap' = heap \o r.data
       /\ tls' = [tls EXCEPT ![t] = [cleared EXCEPT !.ret_handles = handles,
                                                    !.ret_vec_charp = charp]]
       /\ out' = call @@ [rc |-> 0,
                  out_size |-> W(Len(r.data)),
                  out_arr |-> W(BeginPtr(t, "ret_handles", handles)),
                  out_name_size |-> W(Len(r.names)),
                  out_names |-> W(BeginPtr(t, "ret_vec_charp", charp))]

MXNArrayListLoad(t) ==
  /\ hist.loads < MaxLoads
  /\ ListLoadReturn(t, ListLoadBody(file))
  /\ hist' = [hist EXCEPT !.loads = @ + 1]
  /\ UNCHANGED <<file, execs, engine>>

(***************************************************************************)
(* MXNArrayLoadFromRawBytes: the NArray is allocated before it is read,    *)
(* and API_END_HANDLE_ERROR(delete ptr) frees it when the read fails.      *)
(***************************************************************************)
SerializationError == "Invalid NArray serialization format"

\* lines 216-220: ptr->Load(&strm) on the size bytes of buf
RawLoadBody(buf) ==
  Bind(NArrayLoad(buf, 0), LAMBDA r :
    IF ~r.ok THEN Throw(SerializationError)
    ELSE [throw |-> FALSE, msg |-> "", narray |-> r.val])

RawLoadCall(t) ==
  [fn |-> "MXNArrayLoadFromRawBytes", thread |-> t, live |-> Len(heap)]

\* a variant that ends in API_END: the NArray stays allocated
RawLoadReturn_Leaks(t, r) ==
  IF r.throw
  THEN /\ heap' = Append(heap, NoneNArray)
       /\ tls' = [tls EXCEPT ![t] = MXHandleException(@, r.msg)]
       /\ out' = RawLoadCall(t) @@ [rc |-> -1, raised |-> r.msg, out |-> Unwritten]
  ELSE /\ heap' = Append(heap, r.narray)
       /\ out' = RawLoadCall(t) @@ [rc |-> 0, out |-> W(Len(heap) + 1)]
       /\ UNCHANGED tls

\* a variant that resets last_error when the call succeeds
RawLoadReturn_ClearsError(t, r) ==
  IF r.throw
  THEN /\ heap' = SubSeq(Append(heap, NoneNArray), 1, Len(heap))
       /\ tls' = [tls EXCEPT ![t] = MXHandleException(@, r.msg)]
       /\ out' = RawLoadCall(t) @@ [rc |-> -1, raised |-> r.msg, out |-> Unwritten]
  ELSE /\ heap' = Append(heap, r.narray)
       /\ out' = RawLoadCall(t) @@ [rc |-> 0, out |-> W(Len(heap) + 1)]
       /\ tls' = [tls EXCEPT ![t].last_error = ""]

\* lines 214-222: new NArray(), and on a failure delete ptr
RawLoadReturn(t, r) ==
  IF r.throw
  THEN /\ heap' = SubSeq(Append(heap, NoneNArray), 1, Len(heap))
       /\ tls' = [tls EXCEPT ![t] = MXHandleException(@, r.msg)]
       /\ out' = RawLoadCall(t) @@ [rc |-> -1, raised |-> r.msg, out |-> Unwritten]
  ELSE /\ heap' = Append(heap, r.narray)
       /\ out' = RawLoadCall(t) @@ [rc |-> 0, out |-> W(Len(heap) + 1)]
       /\ UNCHANGED tls

MXNArrayLoadFromRawBytes(t, buf) ==
  /\ hist.raws < MaxRawLoads
  /\ hist' = [hist EXCEPT !.raws = @ + 1]
  /\ RawLoadReturn(t, RawLoadBody(buf))
  /\ UNCHANGED <<file, execs, engine>>

(***************************************************************************)
(* The file system outside the API: between the save and the load one     *)
(* byte of the file is changed, or the file is cut short.                  *)
(***************************************************************************)
ByteEdits(b) == {(b + 1) % 256, (b + 255) % 256}

EditByte ==
  /\ file.exists /\ hist.edits < MaxByteEdits /\ hist.loads = 0
  /\ \E p \in 1..Len(file.bytes) : \E v \in ByteEdits(file.bytes[p]) :
        file' = [file EXCEPT !.bytes[p] = v]
  /\ hist' = [hist EXCEPT !.edits = @ + 1, !.pristine = FALSE]
  /\ UNCHANGED <<heap, tls, out, execs, engine>>

Truncate ==
  /\ file.exists /\ hist.edits < MaxByteEdits /\ hist.loads = 0
  /\ \E n \in 0..(Len(file.bytes) - 1) :
        file' = [file EXCEPT !.bytes = SubSeq(file.bytes, 1, n)]
  /\ hist' = [hist EXCEPT !.edits = @ + 1, !.pristine = FALSE]
  /\ UNCHANGED <<heap, tls, out, execs, engine>>

(***************************************************************************)
(* The specification of the list file operations.                          *)
(***************************************************************************)
\* the engine before anything is pushed
NotWaiting == [on |-> FALSE]

IdleEngine ==
  [pending |-> <<>>, next |-> 1, seq |-> <<>>,
   waiting |-> [t \in Threads |-> NotWaiting], misread |-> FALSE]

Init ==
  /\ file = [exists |-> FALSE, bytes |-> <<>>]
  /\ heap = <<>>
  /\ tls = [t \in Threads |-> EmptyEntry]
  /\ out = [fn |-> "none", rc |-> 0]
  /\ hist = [saves |-> 0, loads |-> 0, edits |-> 0, pristine |-> FALSE,
             data |-> <<>>, names |-> <<>>, infers |-> 0,
             passes |-> 0, waits |-> 0, raws |-> 0,
             listings |-> 0, headcalls |-> 0]
  /\ execs = <<>>
  /\ engine = IdleEngine

SaveInputs ==
  { a \in SeqsUpTo(TensorPool, MaxList) : Injective(a) }

Save ==
  \E t \in Threads : \E args \in SaveInputs :
    \/ MXNArrayListSave(t, args, TRUE, <<>>)
    \/ \E keys \in SeqsOfLen(NamePool, Len(args)) :
         MXNArrayListSave(t, args, FALSE, keys)

Load == \E t \in Threads : MXNArrayListLoad(t)

NextIO == Save \/ Load \/ EditByte \/ Truncate

SpecIO == Init /\ [][NextIO]_vars

(***************************************************************************)
(* Loads of both kinds: a list of the two cpu tensors is saved, the file   *)
(* is changed or cut short, and it is loaded; the bytes of one tensor,     *)
(* whole, cut in the middle or cut to nothing, are loaded with             *)
(* MXNArrayLoadFromRawBytes.                                               *)
(***************************************************************************)
Cuts(b) == { b, SubSeq(b, 1, Len(b) \div 2), <<>> }

RawBufs == UNION { Cuts(NArraySave(a)) : a \in TensorPool }

PairPool == { a \in TensorPool : a.ctx = cpu }

SavePair ==
  \E t \in Threads : \E args \in { a \in SeqsOfLen(PairPool, 2) : Injective(a) } :
    \/ MXNArrayListSave(t, args, TRUE, <<>>)
    \/ \E keys \in SeqsOfLen(NamePool, 2) : MXNArrayListSave(t, args, FALSE, keys)

RawLoad == \E t \in Threads : \E buf \in RawBufs : MXNArrayLoadFromRawBytes(t, buf)

NextLoad == SavePair \/ Load \/ EditByte \/ Truncate \/ RawLoad

SpecLoad == Init /\ [][NextLoad]_vars

(***************************************************************************)
(* Symbols and Symbol::InferShape (modelled from the specification).  A    *)
(* symbol is a list of operator nodes in topological order; an input of a  *)
(* node is the i-th argument (i > 0) or the output of the earlier node j   *)
(* (-j); a node has naux auxiliary states; heads are the nodes whose       *)
(* outputs the symbol returns.  The nodes are element-wise: the inputs,    *)
(* the output and the auxiliary states of a node have one shape.  The      *)
(* shape <<>> is the unknown shape.                                        *)
(***************************************************************************)
Node(ins, naux) == [ins |-> ins, naux |-> naux]

Symbols ==
  { \* plus(a1, a2)
    [nargs |-> 2, ops |-> << Node(<<1, 2>>, 0) >>, heads |-> <<1>>],
    \* group(plus(a1, a2), norm(a3)), norm with one auxiliary state
    [nargs |-> 3, ops |-> << Node(<<1, 2>>, 0), Node(<<3>>, 1) >>, heads |-> <<1, 2>>],
    \* plus(norm(a1), a2)
    [nargs |-> 2, ops |-> << Node(<<1>>, 1), Node(<<-1, 2>>, 0) >>, heads |-> <<2>>] }

ShapePool == { <<2>>, <<1, 3>> }

\* the name of the i-th argument, as character codes: "a1", "a2", ...
ArgName(i) == <<97, 48 + i>>

RefShape(r, argS, opS) == IF r > 0 THEN argS[r] ELSE opS[-r]

KnownShapes(node, argS, opS) ==
  { RefShape(node.ins[i], argS, opS) : i \in DOMAIN node.ins } \ { <<>> }

IsInput(node, a) == \E i \in DOMAIN node.ins : node.ins[i] = a

ShapeConflict == "shape inconsistent"

\* the nodes from the k-th on; [throw, msg, arg, op, aux]
RECURSIVE InferNodes(_, _, _, _, _)
InferNodes(sym, k, argS, opS, auxS) ==
  IF k > Len(sym.ops)
  THEN [throw |-> FALSE, msg |-> "", arg |-> argS, op |-> opS, aux |-> auxS]
  ELSE Bind(KnownShapes(sym.ops[k], argS, opS), LAMBDA known :
       IF Cardinality(known) > 1
       THEN [throw |-> TRUE, msg |-> ShapeConflict,
             arg |-> argS, op |-> opS, aux |-> auxS]
       ELSE Bind(IF known = {} THEN <<>> ELSE CHOOSE sh \in known : TRUE, LAMBDA sh :
            InferNodes(sym, k + 1,
                       [a \in DOMAIN argS |->
                          IF sh # <<>> /\ IsInput(sym.ops[k], a) THEN sh ELSE argS[a]],
                       Append(opS, sh),
                       auxS \o [j \in 1..sym.ops[k].naux |-> sh])))

AllKnown(shapes) == \A i \in DOMAIN shapes : shapes[i] # <<>>

\* Symbol::InferShape(arg_shapes, out_shapes, aux_shapes): it throws on a
\* conflict; else it leaves what it inferred in the three vectors and
\* returns whether every shape is known
InferShape(sym, argS) ==
  Bind(InferNodes(sym, 1, argS, <<>>, <<>>), LAMBDA r :
    IF r.throw THEN [throw |-> TRUE, msg |-> r.msg]
    ELSE Bind([h \in DOMAIN sym.heads |-> r.op[sym.heads[h]]], LAMBDA outS :
         [throw |-> FALSE, msg |-> "",
          succ |-> AllKnown(r.arg) /\ AllKnown(outS) /\ AllKnown(r.aux),
          arg_shapes |-> r.arg, out_shapes |-> outS, aux_shapes |-> r.aux]))

\* the keyword form: the shapes of the named arguments, a later key winning
KwargShapes(sym, keys, shapes) ==
  [a \in 1..sym.nargs |->
     IF \E i \in DOMAIN keys : keys[i] = ArgName(a)
     THEN shapes[CHOOSE i \in DOMAIN keys :
                   /\ keys[i] = ArgName(a)
                   /\ \A j \in DOMAIN keys : keys[j] = ArgName(a) => j <= i]
     ELSE <<>>]

(***************************************************************************)
(* MXSymbolInferShape.  The caller gives the shapes in compressed form:    *)
(* shape i is arg_shape_data[arg_ind_ptr[i] .. arg_ind_ptr[i+1]).          *)
(***************************************************************************)
RECURSIVE Flatten(_)
Flatten(shapes) ==
  IF shapes = <<>> THEN <<>> ELSE Head(shapes) \o Flatten(Tail(shapes))

RECURSIVE IndPtr(_, _)
IndPtr(shapes, from) ==
  IF shapes = <<>> THEN <<from>>
  ELSE <<from>> \o IndPtr(Tail(shapes), from + Len(Head(shapes)))

\* TShape(arg_shape_data + arg_ind_ptr[i], arg_shape_data + arg_ind_ptr[i+1])
TShapeOf(arg_ind_ptr, arg_shape_data, i) ==
  SubSeq(arg_shape_data, arg_ind_ptr[i] + 1, arg_ind_ptr[i + 1])

GivenShapes(num_args, arg_ind_ptr, arg_shape_data) ==
  [i \in 1..num_args |-> TShapeOf(arg_ind_ptr, arg_shape_data, i)]

\* MXAPIThreadLocalEntry::SetupShapeArrayReturn: the ndim of each shape,
\* and a pointer to the dimensions of the i-th shape of the vector
ShapeNdim(shapes) == [i \in DOMAIN shapes |-> Len(shapes[i])]
ShapeData(t, vec, shapes) == [i \in DOMAIN shapes |-> [thread |-> t, vec |-> vec, idx |-> i]]

InferCall(t, sym, keysNull, num_args) ==
  [fn |-> "MXSymbolInferShape", thread |-> t, sym |-> sym,
   positional |-> (keysNull /\ num_args # 0)]

NoShapesOut ==
  [in_shape_size |-> Unwritten, in_shape_ndim |-> Unwritten, in_shape_data |-> Unwritten,
   out_shape_size |-> Unwritten, out_shape_ndim |-> Unwritten, out_shape_data |-> Unwritten,
   aux_shape_size |-> Unwritten, aux_shape_ndim |-> Unwritten, aux_shape_data |-> Unwritten]

\* lines 673-687: the three vectors are set up for return and handed out
ShapesOut(t, r) ==
  [in_shape_size |-> W(Len(r.arg_shapes)),
   in_shape_ndim |-> W(BeginPtr(t, "arg_shape_ndim", r.arg_shapes)),
   in_shape_data |-> W(BeginPtr(t, "arg_shape_data", r.arg_shapes)),
   out_shape_size |-> W(Len(r.out_shapes)),
   out_shape_ndim |-> W(BeginPtr(t, "out_shape_ndim", r.out_shapes)),
   out_shape_data |-> W(BeginPtr(t, "out_shape_data", r.out_shapes)),
   aux_shape_size |-> W(Len(r.aux_shapes)),
   aux_shape_ndim |-> W(BeginPtr(t, "aux_shape_ndim", r.aux_shapes)),
   aux_shape_data |-> W(BeginPtr(t, "aux_shape_data", r.aux_shapes))]

SetupShapeArrayReturn(entry, t) ==
  [entry EXCEPT
     !.arg_shape_ndim = ShapeNdim(entry.arg_shapes),
     !.arg_shape_data = ShapeData(t, "arg_shapes", entry.arg_shapes),
     !.out_shape_ndim = ShapeNdim(entry.out_shapes),
     !.out_shape_data = ShapeData(t, "out_shapes", entry.out_shapes),
     !.aux_shape_ndim = ShapeNdim(entry.aux_shapes),
     !.aux_shape_data = ShapeData(t, "aux_shapes", entry.aux_shapes)]

\* a variant that hands the shapes out whether or not inference completed
InferOutParams_Always(t, r) ==
  ShapesOut(t, r) @@ [complete |-> W(IF r.succ THEN 1 ELSE 0)]

\* a variant that reports every inference that did not throw as complete
InferOutParams_AlwaysComplete(t, r) ==
  (IF r.succ THEN ShapesOut(t, r) ELSE NoShapesOut) @@ [complete |-> W(1)]

\* lines 672-691: what the call writes to the caller's out-parameters once
\* InferShape has returned r.succ
InferOutParams(t, r) ==
  IF r.succ
  THEN ShapesOut(t, r) @@ [complete |-> W(1)]
  ELSE NoShapesOut @@ [complete |-> W(0)]

\* lines 672-691, the thread's entry: the return arrays are set up only
\* when InferShape returned true
InferEntry(entry, t, r) ==
  IF r.succ THEN SetupShapeArrayReturn(entry, t) ELSE entry

\* given is the shapes the caller named; inferred is InferShape's result
InferReturn(t, call, given, r) ==
  LET entry0 == IF call.positional
                THEN [tls[t] EXCEPT !.arg_shapes = given]
                ELSE tls[t]
  IN
  IF r.throw
  THEN /\ tls' = [tls EXCEPT ![t] = MXHandleException(entry0, r.msg)]
       /\ out' = call @@ [rc |-> -1, raised |-> r.msg, inferred |-> r]
                      @@ NoShapesOut @@ [complete |-> Unwritten]
  ELSE LET entry1 == [entry0 EXCEPT !.arg_shapes = r.arg_shapes,
                                    !.out_shapes = r.out_shapes,
                                    !.aux_shapes = r.aux_shapes]
       IN
       /\ tls' = [tls EXCEPT ![t] = InferEntry(entry1, t, r)]
       /\ out' = call @@ [rc |-> 0, inferred |-> r] @@ InferOutParams(t, r)

MXSymbolInferShape(t, sym, num_args, keysNull, keys, arg_ind_ptr, arg_shape_data) ==
  /\ hist.infers < MaxInfers
  /\ hist' = [hist EXCEPT !.infers = @ + 1]
  /\ LET given == GivenShapes(num_args, arg_ind_ptr, arg_shape_data)
         call == InferCall(t, sym, keysNull, num_args)
     IN
     IF call.positional
     THEN InferReturn(t, call, given, InferShape(sym, given))
     ELSE InferReturn(t, call, given,
                      InferShape(sym, KwargShapes(sym, keys, given)))
  /\ UNCHANGED <<file, heap, execs, engine>>

\* the caller names a shape, possibly unknown, for each argument in order
InferPositional ==
  \E t \in Threads : \E sym \in Symbols :
    \E shapes \in SeqsOfLen(ShapePool \cup {<<>>}, sym.nargs) :
      MXSymbolInferShape(t, sym, sym.nargs, TRUE, <<>>,
                         IndPtr(shapes, 0), Flatten(shapes))

\* the caller names the shapes of some arguments by keyword (none, with
\* num_args = 0 and no keys)
InferKeyword ==
  \E t \in Threads : \E sym \in Symbols :
    \E n \in 0..MaxKwargs :
      \E ks \in SeqsOfLen(1..sym.nargs, n) : \E shapes \in SeqsOfLen(ShapePool, n) :
        MXSymbolInferShape(t, sym, n, n = 0, [i \in 1..n |-> ArgName(ks[i])],
                           IndPtr(shapes, 0), Flatten(shapes))

NextInfer == InferPositional \/ InferKeyword

SpecInfer == Init /\ [][NextInfer]_vars

(***************************************************************************)
(* NArrays made by the caller.  MXNArrayCreate allocates the storage and   *)
(* does not initialise it: the new array holds any value.  The arrays of   *)
(* this part of the model have the shape (1) and live on the cpu; a handle *)
(* is the index of its NArray in heap.                                     *)
(***************************************************************************)
Values == {1, 2}

Handles == 1..Len(heap)

\* what the array behind handle h holds
ValueOf(h) == heap[h].data[1]

\* an NArray object copied from *handle: it shares the handle's storage
NArrayOf(h) == [chunk |-> h]

\* heap after the array behind each handle of the function w takes w's value
Stored(hp, w) ==
  [h \in DOMAIN hp |-> IF h \in DOMAIN w THEN [hp[h] EXCEPT !.data = <<w[h]>>]
                                         ELSE hp[h]]

Blocked(t) == engine.waiting[t].on

MXNArrayCreate(t, v) ==
  /\ ~Blocked(t)
  /\ Len(heap) < MaxArrays
  /\ heap' = Append(heap, [shape |-> <<1>>, ctx |-> cpu, data |-> <<v>>])
  /\ engine' = [engine EXCEPT !.seq = Append(@, v)]
  /\ out' = [fn |-> "MXNArrayCreate", rc |-> 0, handle |-> W(Len(heap) + 1)]
  /\ UNCHANGED <<file, tls, hist, execs>>

(***************************************************************************)
(* The Executor (modelled from the specification): Bind records the graph *)
(* and the handles, Forward evaluates the nodes in topological order,      *)
(* Backward propagates the head gradients in reverse order and writes the  *)
(* gradient of each argument to its target as the request kind says.       *)
(* The values are those a caller reads once the scheduled steps of the     *)
(* pass have run, which is when MXNArraySyncCopyToCPU lets it read them.   *)
(* A node without auxiliary state adds its inputs; a node with one passes  *)
(* its input on and, in training, keeps it in its auxiliary state.         *)
(***************************************************************************)
kNullOp == 0
kWriteTo == 1
kAddTo == 3

OpReqKinds == {kNullOp, kWriteTo, kAddTo}

ArityMismatch == "arity mismatch"
NoForward == "Backward requires a prior Forward"
HeadGradMismatch == "head gradient count mismatch"

RECURSIVE SumSeq(_)
SumSeq(s) == IF s = <<>> THEN 0 ELSE Head(s) + SumSeq(Tail(s))

NumAux(sym) == SumSeq([k \in DOMAIN sym.ops |-> sym.ops[k].naux])

\* Executor::Bind
ExecutorBind(sym, ctx, in_args, arg_grad, grad_req, aux_states) ==
  IF Len(in_args) # sym.nargs \/ Len(aux_states) # NumAux(sym)
  THEN Throw(ArityMismatch)
  ELSE [throw |-> FALSE, msg |-> "",
        exec |-> [sym |-> sym, ctx |-> ctx, in_args |-> in_args,
                  arg_grad |-> arg_grad, grad_req |-> grad_req,
                  aux_states |-> aux_states,
                  state |-> "bound", heads |-> <<>>,
                  \* history: the passes this executor has run
                  passes |-> <<>>]]

\* the graphs bound here: plus(norm(a1), a2) of the symbols above, and
\* plus(a1, a1)
ExecSymbols ==
  { s \in Symbols : s.nargs = 2 /\ NumAux(s) = 1 }
  \cup { [nargs |-> 1, ops |-> << Node(<<1, 1>>, 0) >>, heads |-> <<1>>] }

RefValue(r, argV, opV) == IF r > 0 THEN argV[r] ELSE opV[-r]

\* the outputs of the nodes from the k-th on, in topological order
RECURSIVE EvalNodes(_, _, _, _)
EvalNodes(sym, k, argV, opV) ==
  IF k > Len(sym.ops) THEN opV
  ELSE EvalNodes(sym, k + 1, argV,
         Append(opV, SumSeq([i \in DOMAIN sym.ops[k].ins |->
                               RefValue(sym.ops[k].ins[i], argV, opV)])))

\* the auxiliary states of the nodes before the k-th
AuxBefore(sym, k) == SumSeq([j \in 1..(k - 1) |-> sym.ops[j].naux])

\* what a training pass leaves in the auxiliary states: handle -> value
AuxWrites(e, argV, opV) ==
  LET owners == { k \in DOMAIN e.sym.ops : e.sym.ops[k].naux > 0 }
      target(k) == e.aux_states[AuxBefore(e.sym, k) + 1].chunk
      \* of the nodes that keep their state in one array, the last one wins
      last(h) == CHOOSE k \in owners :
                   /\ target(k) = h
                   /\ \A j \in owners : target(j) = h => j <= k
  IN [h \in { target(k) : k \in owners } |->
        RefValue(e.sym.ops[last(h)].ins[1], argV, opV)]

\* Executor::Forward(is_train): [exec, writes]
ExecutorForward(e, is_train, hp) ==
  Bind([a \in DOMAIN e.in_args |-> hp[e.in_args[a].chunk].data[1]], LAMBDA argV :
  Bind(EvalNodes(e.sym, 1, argV, <<>>), LAMBDA opV :
    [exec |-> [e EXCEPT !.state = "forward", !.passes = Append(@, "F"),
                        !.heads = [h \in DOMAIN e.sym.heads |-> opV[e.sym.heads[h]]]],
     writes |-> IF is_train THEN AuxWrites(e, argV, opV) ELSE << >>]))

\* the gradient of the output of node k: what its consumers and the heads
\* it feeds contribute, added up
RECURSIVE OpGrad(_, _, _)
OpGrad(sym, k, headG) ==
  SumSeq([h \in DOMAIN sym.heads |-> IF sym.heads[h] = k THEN headG[h] ELSE 0])
  + SumSeq([j \in 1..Len(sym.ops) |->
      IF j <= k THEN 0
      ELSE IF IsInput(sym.ops[j], -k)
           THEN Cardinality({ i \in DOMAIN sym.ops[j].ins : sym.ops[j].ins[i] = -k })
                * OpGrad(sym, j, headG)
           ELSE 0])

\* the raw gradient of argument a
ArgGrad(sym, a, headG) ==
  SumSeq([k \in DOMAIN sym.ops |->
    IF IsInput(sym.ops[k], a)
    THEN Cardinality({ i \in DOMAIN sym.ops[k].ins : sym.ops[k].ins[i] = a })
         * OpGrad(sym, k, headG)
    ELSE 0])

RawGrad(sym, headG) == [a \in 1..sym.nargs |-> ArgGrad(sym, a, headG)]

\* what a request kind outside OpReqKinds makes of a gradient step is not
\* defined: the step is left out, or it writes, or it adds
UndefinedKind == {"skip", "write", "add"}

KindEffect(kind, ub) ==
  IF kind = kNullOp THEN "skip"
  ELSE IF kind = kWriteTo THEN "write"
  ELSE IF kind = kAddTo THEN "add"
  ELSE ub

\* the gradient steps of the arguments from the a-th on
RECURSIVE WriteGrads(_, _, _, _, _)
WriteGrads(e, g, a, hp, ub) ==
  IF a > Len(e.in_args) THEN hp
  ELSE Bind(KindEffect(e.grad_req[a], ub), LAMBDA effect :
       IF effect = "skip" \/ e.arg_grad[a] = NoneNArray
       THEN WriteGrads(e, g, a + 1, hp, ub)
       ELSE Bind(e.arg_grad[a].chunk, LAMBDA h :
            WriteGrads(e, g, a + 1,
              [hp EXCEPT ![h].data =
                 << IF effect = "write" THEN g[a] ELSE hp[h].data[1] + g[a] >>],
              ub)))

ExecutorBackward_NoStateCheck(e, head_grads, hp, ub) ==
  IF Len(head_grads) # Len(e.sym.heads) THEN Throw(HeadGradMismatch)
  ELSE [throw |-> FALSE, msg |-> "",
        exec |-> [e EXCEPT !.state = "backward", !.passes = Append(@, "B")],
        heap |-> WriteGrads(e, RawGrad(e.sym,
                   [h \in DOMAIN head_grads |-> hp[head_grads[h].chunk].data[1]]),
                   1, hp, ub)]

\* Executor::Backward(head_grads)
ExecutorBackward(e, head_grads, hp, ub) ==
  IF e.state = "bound" THEN Throw(NoForward)
  ELSE IF Len(head_grads) # Len(e.sym.heads) THEN Throw(HeadGradMismatch)
  ELSE [throw |-> FALSE, msg |-> "",
        exec |-> [e EXCEPT !.state = "backward", !.passes = Append(@, "B")],
        heap |-> WriteGrads(e, RawGrad(e.sym,
                   [h \in DOMAIN head_grads |-> hp[head_grads[h].chunk].data[1]]),
                   1, hp, ub)]

(***************************************************************************)
(* MXExecutorBind, MXExecutorForward and MXExecutorBackward.               *)
(***************************************************************************)
NullHandle == 0

\* the request kinds a caller passes in grad_req_type
GradReqPool == {0, 1, 3, 7}

\* arg_grad_vec.push_back(...)
BindGradStore(arg_grad_store, i) ==
  IF arg_grad_store[i] = NullHandle THEN NoneNArray
  ELSE NArrayOf(arg_grad_store[i])

BindGradReq_TakesGiven(arg_grad_store, grad_req_type, i) == grad_req_type[i]

BindGradReq_WritesAlways(arg_grad_store, grad_req_type, i) ==
  IF arg_grad_store[i] = NullHandle THEN kNullOp ELSE kWriteTo

\* grad_req_vec.push_back(...): static_cast<OpReqType> keeps the integer
BindGradReq(arg_grad_store, grad_req_type, i) ==
  IF arg_grad_store[i] = NullHandle THEN kNullOp ELSE grad_req_type[i]

BindReturn(t, call, r) ==
  IF r.throw
  THEN /\ tls' = [tls EXCEPT ![t] = MXHandleException(@, r.msg)]
       /\ out' = [fn |-> "MXExecutorBind", thread |-> t, rc |-> -1,
                  raised |-> r.msg, out |-> Unwritten]
       /\ UNCHANGED execs
  ELSE /\ execs' = Append(execs, r.exec @@ [call |-> call])
       /\ out' = [fn |-> "MXExecutorBind", rc |-> 0, out |-> W(Len(execs) + 1)]
       /\ UNCHANGED tls

MXExecutorBind(t, sym, dev_mask, dev_id, len, in_args, arg_grad_store, grad_req_type, aux_states_len, aux_states) ==
  /\ Len(execs) < MaxExecs
  /\ BindReturn(t,
       [arg_grad_store |-> arg_grad_store, grad_req_type |-> grad_req_type],
       ExecutorBind(sym, [dev_mask |-> dev_mask, dev_id |-> dev_id],
         [i \in 1..len |-> NArrayOf(in_args[i])],
         [i \in 1..len |-> BindGradStore(arg_grad_store, i)],
         [i \in 1..len |-> BindGradReq(arg_grad_store, grad_req_type, i)],
         [i \in 1..aux_states_len |-> NArrayOf(aux_states[i])]))
  /\ UNCHANGED <<file, heap, hist, engine>>

\* API calls on an executor: what they leave in out, the executor's state
\* before the call and the values of the arrays before it included
ExecCall(fn, x) ==
  [fn |-> fn, exec |-> x, from |-> execs[x].state,
   prior |-> [h \in Handles |-> ValueOf(h)]]

MXExecutorForward(t, x, is_train) ==
  /\ hist.passes < MaxPasses
  /\ hist' = [hist EXCEPT !.passes = @ + 1]
  /\ LET r == ExecutorForward(execs[x], is_train, heap)
     IN /\ execs' = [execs EXCEPT ![x] = r.exec]
        /\ heap' = Stored(heap, r.writes)
        /\ engine' = [engine EXCEPT !.seq =
                        [h \in Handles |-> Stored(heap, r.writes)[h].data[1]]]
  /\ out' = ExecCall("MXExecutorForward", x) @@ [rc |-> 0, is_train |-> is_train]
  /\ UNCHANGED <<file, tls>>

BackwardReturn(t, call, r) ==
  IF r.throw
  THEN /\ tls' = [tls EXCEPT ![t] = MXHandleException(@, r.msg)]
       /\ out' = call @@ [thread |-> t, rc |-> -1, raised |-> r.msg]
       /\ UNCHANGED <<execs, heap, engine>>
  ELSE /\ execs' = [execs EXCEPT ![call.exec] = r.exec]
       /\ heap' = r.heap
       /\ engine' = [engine EXCEPT !.seq = [h \in Handles |-> r.heap[h].data[1]]]
       /\ out' = call @@ [rc |-> 0]
       /\ UNCHANGED tls

MXExecutorBackward(t, x, len, head_grads, ub) ==
  /\ hist.passes < MaxPasses
  /\ hist' = [hist EXCEPT !.passes = @ + 1]
  /\ BackwardReturn(t,
       ExecCall("MXExecutorBackward", x)
         @@ [head_grads |-> [i \in 1..len |-> ValueOf(head_grads[i])]],
       ExecutorBackward(execs[x], [i \in 1..len |-> NArrayOf(head_grads[i])],
                        heap, ub))
  /\ UNCHANGED file

(***************************************************************************)
(* The calls of a caller that makes arrays, binds a graph to them and runs *)
(* passes.  The graph's inputs and auxiliary states are the first array;   *)
(* the gradient targets and the head gradients are any of the arrays.      *)
(* One thread drives the executor.                                         *)
(***************************************************************************)
Drivers == { t \in Threads : \A u \in Threads : t <= u }

HasUndefinedKind(e) == \E a \in DOMAIN e.grad_req : e.grad_req[a] \notin OpReqKinds

Create == \E t \in Threads : \E v \in Values : MXNArrayCreate(t, v)

ExecBind ==
  /\ Len(heap) > 0
  /\ \E t \in Drivers : \E sym \in ExecSymbols :
     \E len \in {sym.nargs, sym.nargs - 1} : \E aux_len \in {0, 1} :
     \E arg_grad_store \in SeqsOfLen(Handles \cup {NullHandle}, len) :
     \E grad_req_type \in SeqsOfLen(GradReqPool, len) :
       MXExecutorBind(t, sym, cpu.dev_mask, cpu.dev_id, len,
                      [i \in 1..len |-> 1], arg_grad_store, grad_req_type,
                      aux_len, [i \in 1..aux_len |-> 1])

ExecForward ==
  \E t \in Drivers : \E x \in DOMAIN execs : \E is_train \in BOOLEAN :
    MXExecutorForward(t, x, is_train)

ExecBackward ==
  \E t \in Drivers : \E x \in DOMAIN execs : \E len \in 1..2 :
  \E head_grads \in SeqsOfLen(IF len = 1 THEN Handles ELSE {1}, len) :
  \E ub \in IF HasUndefinedKind(execs[x]) THEN UndefinedKind ELSE {"skip"} :
    MXExecutorBackward(t, x, len, head_grads, ub)

NextExec == Create \/ ExecBind \/ ExecForward \/ ExecBackward

SpecExec == Init /\ [][NextExec]_vars

(***************************************************************************)
(* The dependency engine (modelled from the specification) and the calls   *)
(* that use it.  A registered NArray function pushes one operation that    *)
(* reads its use_vars and writes its mutate_vars.  The engine runs any     *)
(* pending operation that no earlier pending operation conflicts with: a   *)
(* write waits for the reads and writes of its handles pushed before it, a *)
(* read for the writes pushed before it.  WaitToRead blocks the caller     *)
(* until the writes of the handle pushed before the wait have run.         *)
(*                                                                         *)
(* engine.seq is the value every array has once all the operations pushed  *)
(* so far have run one after the other in the order they were pushed; an   *)
(* operation keeps under expect what it reads in that order, and           *)
(* engine.misread tells whether an operation has read anything else.       *)
(***************************************************************************)
\* the functions of the registry: [name, num_use_vars, num_scalars,
\* num_mutate_vars]
Functions ==
  { [name |-> "_set_value", num_use_vars |-> 0, num_scalars |-> 1, num_mutate_vars |-> 1],
    [name |-> "_plus", num_use_vars |-> 2, num_scalars |-> 0, num_mutate_vars |-> 1] }

\* what the function computes from the values it reads
FuncApply(f, used, scalar_args) ==
  IF f.name = "_set_value" THEN scalar_args[1] ELSE used[1] + used[2]

Writes(op, h) == \E i \in DOMAIN op.mutate_vars : op.mutate_vars[i] = h
Reads(op, h) == \E i \in DOMAIN op.use_vars : op.use_vars[i] = h

\* does the earlier operation a have to run before the later operation b
Conflict(a, b) ==
  \E h \in Handles :
    \/ Writes(a, h) /\ (Reads(b, h) \/ Writes(b, h))
    \/ Reads(a, h) /\ Writes(b, h)

Ready(k) == \A j \in 1..(k - 1) : ~Conflict(engine.pending[j], engine.pending[k])

\* a thread waiting for h learns of every write to h pushed since
NoteWrite(w, h, v) ==
  IF w.on /\ w.handle = h THEN [w EXCEPT !.after = @ \cup {v}] ELSE w

\* DAGEngine::Push by the body of f
EnginePush(f, use_vars, scalar_args, mutate_vars) ==
  Bind([i \in DOMAIN use_vars |-> engine.seq[use_vars[i]]], LAMBDA expect :
  Bind(FuncApply(f, expect, scalar_args), LAMBDA v :
    [engine EXCEPT
       !.pending = Append(@, [id |-> engine.next, fn |-> f,
                              use_vars |-> use_vars, scalar_args |-> scalar_args,
                              mutate_vars |-> mutate_vars, expect |-> expect]),
       !.next = @ + 1,
       !.seq = [h \in DOMAIN @ |-> IF h = mutate_vars[1] THEN v ELSE @[h]],
       !.waiting = [t \in Threads |-> NoteWrite(@[t], mutate_vars[1], v)]]))

MXFuncInvoke(t, f, use_vars, scalar_args, mutate_vars) ==
  /\ ~Blocked(t)
  /\ engine.next <= MaxOps
  /\ engine' = EnginePush(f, use_vars, scalar_args, mutate_vars)
  /\ out' = [fn |-> "MXFuncInvoke", rc |-> 0]
  /\ UNCHANGED <<file, heap, tls, hist, execs>>

\* a worker of the engine runs the k-th pending operation
EngineRun(k) ==
  /\ k \in DOMAIN engine.pending
  /\ Ready(k)
  /\ LET op == engine.pending[k]
         observed == [i \in DOMAIN op.use_vars |-> ValueOf(op.use_vars[i])]
     IN /\ heap' = [heap EXCEPT ![op.mutate_vars[1]].data =
                      << FuncApply(op.fn, observed, op.scalar_args) >>]
        /\ engine' = [engine EXCEPT
             !.pending = SubSeq(@, 1, k - 1) \o SubSeq(@, k + 1, Len(@)),
             !.misread = @ \/ observed # op.expect]
  /\ UNCHANGED <<file, tls, out, hist, execs>>

\* MXNArrayWaitToRead, the call: the thread blocks in NArray::WaitToRead
WaitToReadCall(t, h) ==
  /\ ~Blocked(t)
  /\ hist.waits < MaxWaits
  /\ hist' = [hist EXCEPT !.waits = @ + 1]
  /\ engine' = [engine EXCEPT !.waiting[t] =
                  [on |-> TRUE, handle |-> h, upto |-> engine.next,
                   expect |-> engine.seq[h], after |-> {},
                   blocks |-> \E k \in DOMAIN engine.pending :
                                Writes(engine.pending[k], h)]]
  /\ UNCHANGED <<file, heap, tls, out, execs>>

\* the writes of h pushed before the wait began have all run
WritesDone(w) ==
  \A k \in DOMAIN engine.pending :
    engine.pending[k].id < w.upto => ~Writes(engine.pending[k], w.handle)

WaitToReadReturn_NoWait(t) ==
  /\ Blocked(t)
  /\ engine' = [engine EXCEPT !.waiting[t] = NotWaiting]
  /\ out' = [fn |-> "MXNArrayWaitToRead", rc |-> 0, thread |-> t,
             handle |-> engine.waiting[t].handle,
             holds |-> ValueOf(engine.waiting[t].handle),
             expect |-> engine.waiting[t].expect,
             after |-> engine.waiting[t].after,
             blocked |-> engine.waiting[t].blocks]
  /\ UNCHANGED <<file, heap, tls, hist, execs>>

\* MXNArrayWaitToRead, the return
WaitToReadReturn(t) ==
  /\ Blocked(t)
  /\ WritesDone(engine.waiting[t])
  /\ engine' = [engine EXCEPT !.waiting[t] = NotWaiting]
  /\ out' = [fn |-> "MXNArrayWaitToRead", rc |-> 0, thread |-> t,
             handle |-> engine.waiting[t].handle,
             holds |-> ValueOf(engine.waiting[t].handle),
             expect |-> engine.waiting[t].expect,
             after |-> engine.waiting[t].after,
             blocked |-> engine.waiting[t].blocks]
  /\ UNCHANGED <<file, heap, tls, hist, execs>>

Invoke ==
  \E t \in Threads : \E f \in Functions :
  \E use_vars \in SeqsOfLen(Handles, f.num_use_vars) :
  \E scalar_args \in SeqsOfLen(Values, f.num_scalars) :
  \E mutate_vars \in SeqsOfLen(Handles, f.num_mutate_vars) :
    MXFuncInvoke(t, f, use_vars, scalar_args, mutate_vars)

Run == \E k \in 1..MaxOps : EngineRun(k)

WaitBegin == \E t \in Threads : \E h \in Handles : WaitToReadCall(t, h)

WaitEnd == \E t \in Threads : WaitToReadReturn(t)

NextEngine == Create \/ Invoke \/ Run \/ WaitBegin \/ WaitEnd

SpecEngine == Init /\ [][NextEngine]_vars

(***************************************************************************)
(* What the caller reads through the out-parameters of the last load.      *)
(***************************************************************************)
IsLoad == out.fn = "MXNArrayListLoad"

\* the n values a pointer to a thread's buffer points at
Deref(ptr, n) ==
  IF n = 0 \/ ptr.thread = 0 THEN <<>>
  ELSE SubSeq(tls[ptr.thread][ptr.buf], 1, n)

LoadedArrays ==
  LET hs == Deref(out.out_arr.val, out.out_size.val) IN
  [i \in 1..Len(hs) |-> heap[hs[i]]]

LoadedNames ==
  LET ps == Deref(out.out_names.val, out.out_name_size.val) IN
  [i \in 1..Len(ps) |-> tls[ps[i].thread].ret_vec_str[ps[i].idx]]

\* the first 8 bytes of the file are the magic, byte for byte
HeaderIsMagic(f) ==
  /\ f.exists /\ Len(f.bytes) >= 8
  /\ SubSeq(f.bytes, 1, 8) = <<18, 1, 0, 0, 0, 0, 0, 0>>

LastError(t) == tls[t].last_error

(***************************************************************************)
(* C1: MXNArrayListLoad returns -1 with the format error for every file    *)
(* whose first 8 bytes are not the magic 0x112, whatever follows them; a   *)
(* load that returns 0 has read a file whose header is the magic.          *)
(***************************************************************************)
C1_BadMagicFails ==
  IsLoad =>
    /\ (out.fname.exists /\ ~HeaderIsMagic(out.fname)
          => out.rc = -1 /\ LastError(out.thread) = FormatError)
    /\ (out.rc = 0 => HeaderIsMagic(out.fname))

\* the saved file with one byte of its magic changed and nothing else: it fails
C1_Witness ==
  /\ IsLoad /\ out.rc = -1 /\ ~out.pristine
  /\ Len(hist.data) = 3
  /\ ~HeaderIsMagic(out.fname)
  /\ LET saved == ListSaveBytes(hist.data, FALSE, hist.names) IN
     /\ Len(out.fname.bytes) = Len(saved)
     /\ \A i \in 9..Len(saved) : out.fname.bytes[i] = saved[i]

(***************************************************************************)
(* C2: a load that returns 0 leaves out_name_size 0 or equal to out_size;  *)
(* a file whose tensors and names can all be read, with a number of names  *)
(* that is neither 0 nor the number of tensors, fails with the format      *)
(* error.                                                                  *)
(***************************************************************************)
FileData(f) == ReadNArrayVec(f.bytes, 16)
FileNames(f) == ReadStringVec(f.bytes, FileData(f).pos)

NamesMismatch(f) ==
  /\ HeaderIsMagic(f) /\ Len(f.bytes) >= 16
  /\ FileData(f).ok /\ FileNames(f).ok
  /\ Len(FileNames(f).val) # 0
  /\ Len(FileNames(f).val) # Len(FileData(f).val)

C2_NameCountChecked ==
  IsLoad =>
    /\ (out.rc = 0 =>
          /\ out.out_size.written /\ out.out_name_size.written
          /\ out.out_name_size.val \in {0, out.out_size.val})
    /\ (NamesMismatch(out.fname)
          => out.rc = -1 /\ LastError(out.thread) = FormatError)

\* a file that reads whole, with fewer names than tensors, was refused
C2_Witness ==
  /\ IsLoad /\ out.rc = -1
  /\ NamesMismatch(out.fname)
  /\ Len(FileData(out.fname).val) = 3
  /\ Len(FileNames(out.fname).val) = 2

(***************************************************************************)
(* C3: round trip.  Loading the file MXNArrayListSave wrote, unchanged,    *)
(* returns 0 and gives back as many tensors, in the same order, with the   *)
(* same shapes, contexts and elements, and the same names in the same      *)
(* order (no names when the list was saved without keys).                  *)
(***************************************************************************)
C3_RoundTrip ==
  IsLoad /\ out.pristine =>
    /\ out.rc = 0
    /\ out.out_size.val = Len(hist.data)
    /\ LoadedArrays = hist.data
    /\ out.out_name_size.val = Len(hist.names)
    /\ LoadedNames = hist.names

\* three tensors of distinct shapes, two of them named and one with the
\* empty name, came back
C3_Witness ==
  /\ IsLoad /\ out.pristine /\ out.rc = 0
  /\ Len(hist.data) = 3
  /\ Cardinality({hist.data[i].shape : i \in 1..3}) = 3
  /\ \A i \in 1..3 : hist.data[i].shape # <<>>
  /\ Len(hist.names) = 3
  /\ Cardinality({i \in 1..3 : hist.names[i] # <<>>}) = 2
  /\ LoadedArrays = hist.data /\ LoadedNames = hist.names

(***************************************************************************)
(* What the caller reads through the out-parameters of the last            *)
(* MXSymbolInferShape.                                                     *)
(***************************************************************************)
IsInfer == out.fn = "MXSymbolInferShape"

\* the shapes behind a size, an ndim array and an array of data pointers
ReturnedShapes(size, ndim, data) ==
  LET nd == Deref(ndim.val, size.val)
      dp == Deref(data.val, size.val)
  IN [i \in 1..size.val |->
        SubSeq(tls[dp[i].thread][dp[i].vec][dp[i].idx], 1, nd[i])]

ShapeOutParams ==
  { "in_shape_size", "in_shape_ndim", "in_shape_data",
    "out_shape_size", "out_shape_ndim", "out_shape_data",
    "aux_shape_size", "aux_shape_ndim", "aux_shape_data" }

ShapesWritten == \A f \in ShapeOutParams : out[f].written
NoShapeWritten == \A f \in ShapeOutParams : ~out[f].written

ShapesReturned ==
  /\ ShapesWritten
  /\ ReturnedShapes(out.in_shape_size, out.in_shape_ndim, out.in_shape_data)
       = out.inferred.arg_shapes
  /\ ReturnedShapes(out.out_shape_size, out.out_shape_ndim, out.out_shape_data)
       = out.inferred.out_shapes
  /\ ReturnedShapes(out.aux_shape_size, out.aux_shape_ndim, out.aux_shape_data)
       = out.inferred.aux_shapes

Incomplete == IsInfer /\ out.rc = 0 /\ out.complete.written /\ out.complete.val = 0

\* inference resolved a shape the caller had not, and left another unknown
PartlyResolved(r) ==
  /\ ~r.throw /\ ~r.succ
  /\ \E i \in DOMAIN r.out_shapes : r.out_shapes[i] # <<>>
  /\ \E i \in DOMAIN r.arg_shapes : r.arg_shapes[i] = <<>>

C5_IncompleteIsNotAnError ==
  IsInfer =>
    /\ (out.rc = -1 <=> out.inferred.throw)
    /\ (out.rc = 0 <=> ~out.inferred.throw)
    /\ (out.rc = -1 =>
          /\ ~out.complete.written
          /\ LastError(out.thread) = out.inferred.msg)
    /\ (out.rc = 0 =>
          /\ out.complete.written
          /\ out.complete.val = (IF out.inferred.succ THEN 1 ELSE 0))

\* a call that could not resolve every shape returned 0 with complete = 0,
\* after a call of the same thread had failed on a conflict
C5_Witness ==
  /\ IsInfer /\ out.rc = 0 /\ ~out.inferred.succ
  /\ out.complete.written /\ out.complete.val = 0
  /\ LastError(out.thread) = ShapeConflict

(***************************************************************************)
(* The executor as its caller sees it.                                     *)
(***************************************************************************)
\* the handle the caller gave MXExecutorBind as the gradient target of
\* argument i of executor x, and the request kind it gave
GivenTarget(x, i) == execs[x].call.arg_grad_store[i]
GivenKind(x, i) == execs[x].call.grad_req_type[i]

Args(x) == DOMAIN execs[x].in_args

\* C6: for every argument of a bound executor whose gradient target was
\* passed as null, the executor holds an empty target and the kind kNullOp,
\* whatever grad_req_type said; for every argument with a target, it holds
\* that handle's array and the kind given in grad_req_type.
C6_AbsentTargetIsSuppress ==
  \A x \in DOMAIN execs : \A i \in Args(x) :
    IF GivenTarget(x, i) = NullHandle
    THEN /\ execs[x].arg_grad[i] = NoneNArray
         /\ execs[x].grad_req[i] = kNullOp
    ELSE /\ execs[x].arg_grad[i] = NArrayOf(GivenTarget(x, i))
         /\ execs[x].grad_req[i] = GivenKind(x, i)

\* an executor bound with a null target under the request accumulate and a
\* present target under the request overwrite
C6_Witness ==
  \E x \in DOMAIN execs : \E i, j \in Args(x) :
    /\ GivenTarget(x, i) = NullHandle /\ GivenKind(x, i) = kAddTo
    /\ execs[x].grad_req[i] = kNullOp
    /\ GivenTarget(x, j) # NullHandle /\ GivenKind(x, j) = kWriteTo
    /\ execs[x].grad_req[j] = kWriteTo

\* C7: every argument of a bound executor that has a gradient target has a
\* request kind among suppress, overwrite and accumulate, whatever
\* integers the caller passed in grad_req_type.
C7_OnlyThreeKinds ==
  \A x \in DOMAIN execs : \A i \in Args(x) :
    execs[x].arg_grad[i] # NoneNArray => execs[x].grad_req[i] \in OpReqKinds

IsForward == out.fn = "MXExecutorForward"
IsBackward == out.fn = "MXExecutorBackward"

Unchanged(h) == ValueOf(h) = out.prior[h]

\* C8: an executor runs a backward pass only after it has run a forward
\* pass; MXExecutorBackward on an executor that has not run Forward fails
\* and runs nothing; MXExecutorForward succeeds from every state.
C8_BackwardOnlyAfterForward ==
  /\ \A x \in DOMAIN execs : \A k \in DOMAIN execs[x].passes :
       execs[x].passes[k] = "B" => \E j \in 1..(k - 1) : execs[x].passes[j] = "F"
  /\ IsBackward /\ out.from = "bound" =>
       /\ out.rc = -1
       /\ execs[out.exec].state = "bound"
       /\ \A h \in Handles : Unchanged(h)
  /\ IsForward => out.rc = 0 /\ execs[out.exec].state = "forward"

\* a Backward was refused before the first Forward, and the executor then
\* ran Forward and Backward
C8_Witness ==
  \E x \in DOMAIN execs :
    /\ execs[x].passes = <<"F", "B">>
    /\ IsBackward /\ out.rc = 0 /\ out.from = "forward"
    /\ \E t \in Threads : LastError(t) = NoForward

\* is argument i the only one asking for a write to its target
SoleWriter(x, i) ==
  \A j \in Args(x) :
    j # i /\ GivenTarget(x, j) = GivenTarget(x, i) => GivenKind(x, j) = kNullOp

\* does some argument ask for a write to h
Targeted(x, h) ==
  \E i \in Args(x) : GivenTarget(x, i) = h /\ GivenKind(x, i) # kNullOp

\* C9: after Forward and Backward, the target of an argument bound with
\* the kind suppress, or an array that is no argument's target, is
\* unchanged; a target bound with overwrite holds the raw gradient; a
\* target bound with accumulate holds its prior value plus the raw gradient.
C9_GradRequestKinds ==
  IsBackward /\ out.rc = 0 =>
    LET x == out.exec
        g == RawGrad(execs[x].sym, out.head_grads)
    IN /\ \A h \in Handles : ~Targeted(x, h) => Unchanged(h)
       /\ \A i \in Args(x) :
            GivenTarget(x, i) # NullHandle /\ SoleWriter(x, i) =>
              /\ GivenKind(x, i) = kNullOp => Unchanged(GivenTarget(x, i))
              /\ GivenKind(x, i) = kWriteTo => ValueOf(GivenTarget(x, i)) = g[i]
              /\ GivenKind(x, i) = kAddTo =>
                   ValueOf(GivenTarget(x, i)) = out.prior[GivenTarget(x, i)] + g[i]

\* a backward pass that overwrote one target and accumulated into another
C9_Witness ==
  /\ IsBackward /\ out.rc = 0
  /\ \E i, j \in Args(out.exec) :
       /\ GivenTarget(out.exec, i) # NullHandle
       /\ GivenTarget(out.exec, j) # NullHandle
       /\ GivenTarget(out.exec, i) # GivenTarget(out.exec, j)
       /\ GivenKind(out.exec, i) = kWriteTo
       /\ GivenKind(out.exec, j) = kAddTo
       /\ ValueOf(GivenTarget(out.exec, j)) > out.prior[GivenTarget(out.exec, j)]
       /\ ValueOf(GivenTarget(out.exec, i)) # out.prior[GivenTarget(out.exec, i)]

(***************************************************************************)
(* The engine as its callers see it.                                       *)
(***************************************************************************)
IsWait == out.fn = "MXNArrayWaitToRead"

\* C10 as claimed: no operation reads anything but what the writes pushed
\* before it leave, and when MXNArrayWaitToRead(H) returns H holds the
\* result of the last write to H pushed before the wait.
C10_HoldsLastWriteBeforeWait ==
  /\ ~engine.misread
  /\ IsWait => out.holds = out.expect

\* C10: no operation reads anything but what the writes pushed before it
\* leave, and when MXNArrayWaitToRead(H) returns H holds the result of the
\* last write to H pushed before the wait or of a write to H that another
\* thread pushed since the wait began.
C10_HoldsWriteBeforeOrSinceWait ==
  /\ ~engine.misread
  /\ IsWait => out.holds \in {out.expect} \cup out.after

\* a wait that found a write to its handle pending and returned with the
\* result of that write in the handle
C10_Witness ==
  /\ IsWait /\ out.blocked /\ out.after = {}
  /\ out.holds = out.expect
  /\ ~engine.misread

(***************************************************************************)
(* MXSymbolListArguments, MXSymbolListReturns and MXExecutorHeads: the     *)
(* calls that return an array held in the calling thread's entry.          *)
(***************************************************************************)
\* the name of the output of node k: "o1", "o2", ...
OutName(k) == <<111, 48 + k>>

\* Symbol::ListArguments and Symbol::ListReturns
ListArguments(sym) == [i \in 1..sym.nargs |-> ArgName(i)]
ListReturns(sym) == [h \in DOMAIN sym.heads |-> OutName(sym.heads[h])]

\* lines 557-563 and 573-579: the strings, the pointers to them, the
\* out-parameters
SymbolListReturn(t, fn, sym, names) ==
  LET charp == [i \in 1..Len(names) |-> CStr(t, i)] IN
  /\ hist.listings < MaxListings
  /\ hist' = [hist EXCEPT !.listings = @ + 1]
  /\ tls' = [tls EXCEPT ![t].ret_vec_str = names, ![t].ret_vec_charp = charp]
  /\ out' = [fn |-> fn, thread |-> t, rc |-> 0, symbol |-> sym,
             out_size |-> W(Len(charp)),
             out_str_array |-> W(BeginPtr(t, "ret_vec_charp", charp))]
  /\ UNCHANGED <<file, heap, execs, engine>>

MXSymbolListArguments(t, sym) ==
  SymbolListReturn(t, "MXSymbolListArguments", sym, ListArguments(sym))

MXSymbolListReturns(t, sym) ==
  SymbolListReturn(t, "MXSymbolListReturns", sym, ListReturns(sym))

\* Executor::heads(): the arrays of the outputs, one per head, holding
\* what the last forward pass computed
ExecutorHeads(e) ==
  [h \in DOMAIN e.heads |-> [shape |-> <<1>>, ctx |-> cpu, data |-> <<e.heads[h]>>]]

\* lines 720-730: a new NArray for each head, its handle in ret_handles
MXExecutorHeads(t, x) ==
  /\ hist.headcalls < MaxHeadCalls
  /\ hist' = [hist EXCEPT !.headcalls = @ + 1]
  /\ LET heads == ExecutorHeads(execs[x])
         handles == [i \in 1..Len(heads) |-> Len(heap) + i]
     IN /\ heap' = heap \o heads
        /\ tls' = [tls EXCEPT ![t].ret_handles = handles]
        /\ out' = [fn |-> "MXExecutorHeads", thread |-> t, rc |-> 0,
                   exec |-> x, live |-> Len(heap),
                   out_size |-> W(Len(heads)),
                   out |-> W(BeginPtr(t, "ret_handles", handles))]
  /\ UNCHANGED <<file, execs, engine>>

(***************************************************************************)
(* The calls of two threads that list the names of a symbol, take the      *)
(* heads of an executor after a forward pass, and load a list file, whole  *)
(* or with its names damaged.  The symbols are group(plus(a1, a2),         *)
(* norm(a3)) and plus(a1, a1); the executor is bound to the first array,   *)
(* without gradient targets.                                               *)
(***************************************************************************)
BufSymbols ==
  { s \in Symbols : Len(s.heads) = 2 }
  \cup { s \in ExecSymbols : s.nargs = 1 }

BufBind ==
  /\ Len(heap) > 0
  /\ \E t \in Drivers : \E sym \in BufSymbols :
       MXExecutorBind(t, sym, cpu.dev_mask, cpu.dev_id, sym.nargs,
                      [i \in 1..sym.nargs |-> 1],
                      [i \in 1..sym.nargs |-> NullHandle],
                      [i \in 1..sym.nargs |-> kNullOp],
                      NumAux(sym), [i \in 1..NumAux(sym) |-> 1])

\* the first array
FirstArray ==
  \E t \in Drivers : heap = <<>> /\ MXNArrayCreate(t, 1)

\* one forward pass
BufForward ==
  \E t \in Drivers : \E x \in DOMAIN execs :
    execs[x].state = "bound" /\ MXExecutorForward(t, x, FALSE)

Heads ==
  \E t \in Threads : \E x \in DOMAIN execs :
    execs[x].state # "bound" /\ MXExecutorHeads(t, x)

\* the symbol whose names are listed: three arguments, two outputs
Listed == { s \in Symbols : Len(s.heads) = 2 }

ListArgs == \E t \in Threads : \E sym \in Listed : MXSymbolListArguments(t, sym)

ListRets == \E t \in Threads : \E sym \in Listed : MXSymbolListReturns(t, sym)

\* two named tensors
SaveNamed ==
  \E t \in Drivers : \E args \in { a \in SeqsOfLen(PairPool, 2) : Len(a[1].shape) < Len(a[2].shape) } :
    MXNArrayListSave(t, args, FALSE, [i \in 1..2 |-> <<97, 98>>])

\* where the names of the saved file begin
NamesAt == Len(file.bytes) - Len(WriteStringVec(hist.names))

\* the number of names is changed, or the file is cut inside the names
DamageNames ==
  /\ file.exists /\ hist.edits < MaxByteEdits /\ hist.loads = 0
  /\ \/ \E v \in ByteEdits(file.bytes[NamesAt + 1]) :
          file' = [file EXCEPT !.bytes[NamesAt + 1] = v]
     \/ \E n \in {NamesAt + 8, Len(file.bytes) - 1} :
          file' = [file EXCEPT !.bytes = SubSeq(file.bytes, 1, n)]
  /\ hist' = [hist EXCEPT !.edits = @ + 1, !.pristine = FALSE]
  /\ UNCHANGED <<heap, tls, out, execs, engine>>

NextBuf ==
  \/ FirstArray \/ BufBind \/ BufForward \/ Heads
  \/ ListArgs \/ ListRets
  \/ SaveNamed \/ DamageNames \/ Load

SpecBuf == Init /\ [][NextBuf]_vars

(***************************************************************************)
(* The error protocol as a caller sees it.                                 *)
(***************************************************************************)
\* the message of the dmlc::Error the most recent call raised, "" if none
Raised == IF "raised" \in DOMAIN out THEN out.raised ELSE ""

\* C11: a call returns 0 when its body raised nothing and -1 when it raised
\* a dmlc::Error, and after the -1 MXGetLastError on the calling thread
\* returns the message of that error, the most recent one of the thread.
C11_ErrorProtocol ==
  /\ out.rc \in {0, -1}
  /\ out.rc = 0 <=> Raised = ""
  /\ out.rc = -1 => LastError(out.thread) = Raised

\* a Backward that failed after a Forward had succeeded, its message being
\* the thread's last error
C11_Witness ==
  /\ IsBackward /\ out.rc = -1 /\ Raised = HeadGradMismatch
  /\ LastError(out.thread) = HeadGradMismatch
  /\ out.from = "forward"

IsRawLoad == out.fn = "MXNArrayLoadFromRawBytes"

\* C12: a load that returns -1 has written none of its out-parameters and
\* has left no NArray allocated: there are as many as before the call, and
\* the thread's returned handles are those of its last successful load.
C12_FailedLoadHasNoEffect ==
  /\ IsLoad /\ out.rc = -1 =>
       /\ ~out.out_size.written /\ ~out.out_arr.written
       /\ ~out.out_name_size.written /\ ~out.out_names.written
       /\ Len(heap) = out.live
       /\ \A i \in DOMAIN tls[out.thread].ret_handles :
            tls[out.thread].ret_handles[i] <= out.live
  /\ IsRawLoad /\ out.rc = -1 =>
       /\ ~out.out.written
       /\ Len(heap) = out.live

\* MXNArrayLoadFromRawBytes failed on a buffer cut short, with an NArray of
\* an earlier load still allocated
C12_Witness ==
  /\ IsRawLoad /\ out.rc = -1 /\ Raised = SerializationError
  /\ out.live > 0 /\ Len(heap) = out.live

\* the bytes 9..16 of a list file are its reserved field
ReservedIsZero(bytes) == Len(bytes) >= 16 /\ \A i \in 9..16 : bytes[i] = 0

ZeroReserved(bytes) == [i \in DOMAIN bytes |-> IF i \in 9..16 THEN 0 ELSE bytes[i]]

\* C13: the file MXNArrayListSave wrote has a reserved field of zero; a
\* file that differs from it in the reserved field only loads to what was
\* saved; a file too short to hold the reserved field fails with the format
\* error.
C13_ReservedField ==
  /\ file.exists /\ hist.pristine => ReservedIsZero(file.bytes)
  /\ IsLoad /\ Len(out.fname.bytes) >= 16
       /\ ZeroReserved(out.fname.bytes) = ListSaveBytes(hist.data, FALSE, hist.names)
     => /\ out.rc = 0
        /\ LoadedArrays = hist.data
        /\ LoadedNames = hist.names
  /\ IsLoad /\ out.fname.exists /\ Len(out.fname.bytes) < 16
     => out.rc = -1 /\ LastError(out.thread) = FormatError

\* a file whose reserved field is not zero loaded to the two tensors and the
\* two names that were saved
C13_Witness ==
  /\ IsLoad /\ out.rc = 0
  /\ ~ReservedIsZero(out.fname.bytes)
  /\ ZeroReserved(out.fname.bytes) = ListSaveBytes(hist.data, FALSE, hist.names)
  /\ Len(hist.data) = 2 /\ Len(hist.names) = 2
  /\ LoadedArrays = hist.data /\ LoadedNames = hist.names

\* C14: a thread's last error changes only in a failing call of that
\* thread, which sets it to the message raised: a failure on one thread
\* leaves the last error of every other thread as it was, and a call that
\* succeeds leaves every last error as it was.
C14_LastErrorPerThread ==
  [][\A t \in Threads :
       tls'[t].last_error # tls[t].last_error =>
         /\ out'.rc = -1
         /\ out'.thread = t
         /\ tls'[t].last_error = out'.raised]_vars

\* thread 1 failed to load a file and then loaded an NArray from bytes:
\* its last error is still the format error, and thread 2 has none
C14_Witness ==
  /\ IsRawLoad /\ out.rc = 0 /\ out.thread = 1
  /\ LastError(1) = FormatError
  /\ LastError(2) = ""

(***************************************************************************)
(* The arrays a call returns, held in the calling thread's entry.          *)
(***************************************************************************)
IsListing == out.fn \in {"MXSymbolListArguments", "MXSymbolListReturns"}
IsHeads == out.fn = "MXExecutorHeads"

\* the calls that write ret_vec_str / ret_vec_charp, and ret_handles
WritesStrings ==
  {"MXNArrayListLoad", "MXSymbolListArguments", "MXSymbolListReturns"}
WritesHandles == {"MXNArrayListLoad", "MXExecutorHeads"}

\* the strings *out_str_array points at
ListedNames ==
  LET ps == Deref(out.out_str_array.val, out.out_size.val) IN
  [i \in 1..Len(ps) |-> tls[ps[i].thread].ret_vec_str[ps[i].idx]]

\* what the listing call asked for
AskedNames ==
  IF out.fn = "MXSymbolListArguments" THEN ListArguments(out.symbol)
                                      ELSE ListReturns(out.symbol)

\* the handles *out of MXExecutorHeads points at
HeadHandles == Deref(out.out.val, out.out_size.val)

\* every name a symbol listed here has
SymbolNames ==
  UNION { { ListArguments(s)[i] : i \in DOMAIN ListArguments(s) }
          \cup { ListReturns(s)[i] : i \in DOMAIN ListReturns(s) } : s \in Listed }

\* C15: the arrays a call returns live in buffers of the calling thread
\* that are reused.  A thread's ret_vec_str / ret_vec_charp change only in
\* a call of that thread that writes them (MXNArrayListLoad,
\* MXSymbolListArguments, MXSymbolListReturns) and its ret_handles only in
\* its own MXNArrayListLoad or MXExecutorHeads; after such a call the
\* buffer holds that call's result and nothing of the earlier one; and a
\* MXNArrayListLoad that fails leaves none of the strings returned before
\* it in ret_vec_str, which is empty when the file could not be opened.
C15_BuffersPerThreadReused ==
  [][/\ \A t \in Threads :
          /\ <<tls'[t].ret_vec_str, tls'[t].ret_vec_charp>>
               # <<tls[t].ret_vec_str, tls[t].ret_vec_charp>>
             => out'.fn \in WritesStrings /\ out'.thread = t
          /\ tls'[t].ret_handles # tls[t].ret_handles
             => out'.fn \in WritesHandles /\ out'.thread = t
     /\ IsListing' /\ hist'.listings # hist.listings =>
          /\ tls'[out'.thread].ret_vec_str = AskedNames'
          /\ ListedNames' = AskedNames'
     /\ IsHeads' /\ hist'.headcalls # hist.headcalls =>
          /\ HeadHandles' = tls'[out'.thread].ret_handles
          /\ Len(HeadHandles') = Len(execs[out'.exec].heads)
          /\ \A i \in DOMAIN HeadHandles' :
               /\ HeadHandles'[i] > Len(heap)
               /\ heap'[HeadHandles'[i]].data = <<execs[out'.exec].heads[i]>>
     /\ IsLoad' /\ hist'.loads # hist.loads /\ out'.rc = 0 =>
          /\ Deref(out.out_arr.val, out.out_size.val)' = tls'[out'.thread].ret_handles
          /\ \A i \in DOMAIN tls'[out'.thread].ret_handles :
               tls'[out'.thread].ret_handles[i] > Len(heap)
          /\ LoadedNames' = tls'[out'.thread].ret_vec_str
     /\ IsLoad' /\ hist'.loads # hist.loads /\ out'.rc = -1 =>
          /\ \A i \in DOMAIN tls'[out'.thread].ret_vec_str :
               tls'[out'.thread].ret_vec_str[i] \notin SymbolNames
          /\ out'.raised = OpenError => tls'[out'.thread].ret_vec_str = <<>>
    ]_vars

\* thread 1 listed the names of a symbol and then failed to load a file
\* that has one name for two tensors: its ret_vec_str holds the name read
\* from the file, while thread 2 still holds the output names it listed
\* and the two head handles it took
C15_Witness ==
  /\ IsLoad /\ out.rc = -1 /\ out.thread = 1
  /\ out.strs # <<>>
  /\ \A i \in DOMAIN out.strs : out.strs[i] \in SymbolNames
  /\ tls[1].ret_vec_str = << <<97, 98>> >>
  /\ Len(tls[1].ret_vec_charp) = Len(out.strs)
  /\ tls[2].ret_vec_str \in { ListReturns(s) : s \in Listed }
  /\ Len(tls[2].ret_handles) = 2
====
